---- MODULE Spec2Model ----
(***************************************************************************)
(* A model of the code agent: the streamed-event classifier (run_agent in  *)
(* agent.py) and the two tools (execute_python_code and                    *)
(* install_python_libraries in tools/) that run on the container pool of   *)
(* the llm_sandbox library.                                                *)
(*                                                                         *)
(* Text is a sequence of one-character strings, so that the concatenation  *)
(* the classifier performs is a real concatenation.                        *)
(***************************************************************************)
EXTENDS Integers, Sequences, FiniteSets, TLC

\* ------------------------------------------------------------------ bounds

\* Stream events consumed in one turn.
MaxEvents == 3
\* Parts (summary or content items) carried by one reasoning or message item.
MaxParts == 1

\* ------------------------------------------------------------------- text

NL == "\n"
Null == "None"

\* The texts that parts and arguments are drawn from.
TextA == <<"a">>
TextB == <<"b">>
Print1 == <<"p", "r", "i", "n", "t", "(", "1", ")">>
Empty == <<>>

ReasoningTexts == {Empty, TextA}
MessageTexts == {Empty, TextB}
CodeTexts == {Empty, Print1}

\* Sequences over S of length at most n.
SeqUpTo(S, n) == UNION {[1..k -> S] : k \in 0..n}

\* ----------------------------------------------------------------- events

\* The item of a run_item_stream_event, by item.type; a raw_response_event or
\* an agent_updated_stream_event carries no item the classifier reads.
\*   fn    raw_item is a ResponseFunctionToolCall
\*   name  raw_item.name
\*   args  the object orjson.loads(raw_item.arguments) yields:
\*         hasCode says whether it has the key "code"
NoArgs == [hasCode |-> FALSE, code |-> Empty]

ArgObjects == {NoArgs} \cup {[hasCode |-> TRUE, code |-> c] : c \in CodeTexts}

Ev(type, item, parts, fn, name, args) ==
  [type |-> type, item |-> item, parts |-> parts, fn |-> fn, name |-> name, args |-> args]

ReasoningEvents ==
  {Ev("run_item_stream_event", "reasoning_item", p, FALSE, "", NoArgs) :
     p \in SeqUpTo(ReasoningTexts, MaxParts)}

MessageEvents ==
  {Ev("run_item_stream_event", "message_output_item", p, FALSE, "", NoArgs) :
     p \in SeqUpTo(MessageTexts, MaxParts)}

ToolCallEvents ==
  {Ev("run_item_stream_event", "tool_call_item", <<>>, TRUE, "execute_python_code", a) :
     a \in ArgObjects}
  \cup {Ev("run_item_stream_event", "tool_call_item", <<>>, TRUE,
           "install_python_libraries", NoArgs),
        Ev("run_item_stream_event", "tool_call_item", <<>>, TRUE,
           "install_python_libraries", [hasCode |-> TRUE, code |-> Print1]),
        Ev("run_item_stream_event", "tool_call_item", <<>>, FALSE,
           "execute_python_code", [hasCode |-> TRUE, code |-> Print1])}

OtherEvents ==
  {Ev("raw_response_event", "", <<>>, FALSE, "", NoArgs),
   Ev("run_item_stream_event", "tool_call_output_item", <<>>, FALSE, "", NoArgs)}

EventSet == ReasoningEvents \cup MessageEvents \cup ToolCallEvents \cup OtherEvents

\* ------------------------------------------------------- classifier (pure)

\* for part in parts: text += f"{part.text}\n\n"
RECURSIVE ConcatPartsNoSeparator(_)
ConcatPartsNoSeparator(parts) ==
  IF parts = <<>> THEN <<>>
  ELSE Head(parts) \o ConcatPartsNoSeparator(Tail(parts))

RECURSIVE ConcatParts(_)
ConcatParts(parts) ==
  IF parts = <<>> THEN <<>>
  ELSE Head(parts) \o <<NL, NL>> \o ConcatParts(Tail(parts))

NoEntry == [type |-> "none", content |-> Empty]

Entry(type, content) == [type |-> type, content |-> content]

\* event.item.raw_item.name == "execute_python_code"
IsSurfacedAnyTool(name) == name \in {"execute_python_code", "install_python_libraries"}

IsSurfaced(name) == name = "execute_python_code"

\* if code := json_arguments.get("code"): the key is there and its value is
\* not empty.
CodeGivenIfPresent(args) == args.hasCode

CodeGiven(args) == args.hasCode /\ args.code # Empty

\* The entry the loop body produces for one event, NoEntry when it produces
\* none.
Classify(e) ==
  IF e.type # "run_item_stream_event" THEN NoEntry
  ELSE IF e.item = "reasoning_item"
    THEN LET t == ConcatParts(e.parts)
         IN IF t # Empty THEN Entry("reasoning", t) ELSE NoEntry
  ELSE IF e.item = "tool_call_item" /\ e.fn /\ IsSurfaced(e.name)
    THEN IF CodeGiven(e.args)
           THEN Entry("code", e.args.code) ELSE NoEntry
  ELSE IF e.item = "message_output_item"
    THEN LET t == ConcatParts(e.parts)
         IN IF t # Empty THEN Entry("output", t) ELSE NoEntry
  ELSE NoEntry

\* ------------------------------------------------------------- tool model

\* Tool invocations made by the agent runtime.
MaxCalls == 2
\* Stream events the loop consumes while the tools are observed.
MaxLoopSteps == 1
\* Containers the runtime can provision over the life of the pool.
MaxContainers == 2

Calls == 1..MaxCalls
\* Concurrent turns (run_agent calls) sharing the pool, each with its own loop.
Turns == {"main", "other"}
Containers == 1..MaxContainers
\* The turn whose event loop (run_agent's async for) is modelled step by step.
MainTurn == "main"

\* PoolConfig(max_pool_size=1, min_pool_size=1, enable_prewarming=True)
MaxPoolSizeTwo == 1 + 1

MaxPoolSize == 1
MinPoolSize == 1

\* The three tool functions.
ExecTool == "code_execution_tool.execute_python_code"
ExecOld == "code_execution.execute_python_code"
Install == "code_execution.install_python_libraries"
ToolFns == {ExecTool, ExecOld, Install}

ExitCodes == {0, 1}
\* Faults the llm_sandbox library raises, all subclasses of Exception.
EnterFaults == {"PoolExhausted", "ProvisioningError"}
RunFaults == {"ExecutionTimeout", "ExecutionFault"}
FaultKinds == EnterFaults \cup RunFaults

\* Calls of init_code_execution_pool made in the process, from any thread.
MaxInitCalls == 2

InitCalls == 1..MaxInitCalls
\* The libraries arguments: None or [], ["numpy", "pandas"] (app.py), another list.
NoLibraries == <<>>
LibraryLists == {NoLibraries, <<"numpy", "pandas">>, <<"scipy">>}

VARIABLES
  \* run_agent (agent.py)
  pc,          \* "idle" | "streaming" | "append" | "complete" | "failed" | "cancelled"
  events,      \* the stream events consumed so far, in arrival order
  outputs,     \* the local list `outputs`
  src,         \* for each entry of outputs, the index in events of its event
  cbLog,       \* the callback invocations so far: <<callback, text>>
  pending,     \* the entry whose callback has run and whose append is next
  returned,    \* what run_agent returned (a one-element sequence), <<>> before
  streamRaised,\* result.stream_events() has raised
  \* the tools (tools/code_execution_tool.py, tools/code_execution.py)
  co,          \* per call, the tool coroutine: "idle" | "awaiting" | "returned" | "raised" | "cancelled"
  wk,          \* per call, the executor's work item running _run / _install
  tool,        \* per call, the tool function
  turn,        \* per call, the turn that issued it
  res,         \* per call, what the work item produced
  fault,       \* per call, the fault raised inside the session, "none" if none
  ranExit,     \* per call, {exit code session.run returned}, {} if it did not return
  sess,        \* per call, the container bound to its SandboxSession, 0 if none
  leasedBefore,\* per call, the pool's leased count when the call was issued
  doneQ,       \* per turn, completions queued on its loop (call_soon_threadsafe)
  finishOrder, \* calls in the order their work items finished
  deliverOrder,\* calls in the order their coroutines resumed with a result
  cancelled,   \* the turns cancelled so far
  \* the pool (llm_sandbox)
  cstate,      \* per container: "Cold" | "Warming" | "Ready" | "Leased" | "Dead"
  lease,       \* per container, the call whose session it is leased to or warmed for, 0 if none
  prewarmLeft, \* containers the startup prewarm has still to provision
  \* init_code_execution_pool (tools/code_execution_tool.py, tools/code_execution.py)
  code_execution_pool, \* the module global: the pool it holds, 0 for None
  ipc,         \* per call of init_code_execution_pool, its position
  libs,        \* per call, its libraries argument (<<>> for None or an empty list)
  made,        \* per call, the pool its create_pool_manager returned, 0 if none
  ret,         \* per call, the pool it returned, 0 if none
  prewarm,     \* per pool created, how its prewarming ended
  pipLog       \* the pip install commands issued: <<pool, libraries>>

agentVars == <<pc, events, outputs, src, cbLog, pending, returned, streamRaised>>
toolVars == <<co, wk, tool, turn, res, fault, ranExit, sess, leasedBefore, doneQ,
              finishOrder, deliverOrder, cancelled>>
poolVars == <<cstate, lease, prewarmLeft>>
startVars == <<code_execution_pool, ipc, libs, made, ret, prewarm, pipLog>>
vars == <<agentVars, toolVars, poolVars, startVars>>

NoResult == [pending |-> TRUE]

Init ==
  /\ pc = "idle"
  /\ events = <<>>
  /\ outputs = <<>>
  /\ src = <<>>
  /\ cbLog = <<>>
  /\ pending = NoEntry
  /\ returned = <<>>
  /\ streamRaised = FALSE
  /\ co = [i \in Calls |-> "idle"]
  /\ wk = [i \in Calls |-> "none"]
  /\ tool = [i \in Calls |-> ExecTool]
  /\ turn = [i \in Calls |-> MainTurn]
  /\ res = [i \in Calls |-> NoResult]
  /\ fault = [i \in Calls |-> "none"]
  /\ ranExit = [i \in Calls |-> {}]
  /\ sess = [i \in Calls |-> 0]
  /\ leasedBefore = [i \in Calls |-> 0]
  /\ doneQ = [t \in Turns |-> <<>>]
  /\ finishOrder = <<>>
  /\ deliverOrder = <<>>
  /\ cancelled = {}
  /\ cstate = [c \in Containers |-> "Cold"]
  /\ lease = [c \in Containers |-> 0]
  /\ prewarmLeft = MinPoolSize
  /\ code_execution_pool = 0
  /\ ipc = [p \in InitCalls |-> "idle"]
  /\ libs = [p \in InitCalls |-> <<>>]
  /\ made = [p \in InitCalls |-> 0]
  /\ ret = [p \in InitCalls |-> 0]
  /\ prewarm = [q \in InitCalls |-> "none"]
  /\ pipLog = {}

\* ------------------------------------------------------------ the loop

\* Where the tool coroutine runs the blocking session call:
\* loop.run_in_executor(None, _run, code) hands it to the default executor.
DispatchInline == "loop"

DispatchTarget == "executor"

\* The work item of call i is between its submission and its end.
Working(i) == wk[i] \in {"queued", "enter", "provisioning", "running"}

\* The loop of turn t is between two suspension points: no coroutine of the
\* turn is inside a synchronous stretch. The body of the async for, from the
\* callback to the append, has no await in it.
LoopFree(t) ==
  /\ t = MainTurn => pc # "append"
  /\ \A i \in Calls : (turn[i] = t /\ Working(i)) => DispatchTarget = "executor"

\* -------------------------------------------------- run_agent (agent.py)

\* outputs.append(x)
AddEntryFirst(list, x) == <<x>> \o list

AddEntry(list, x) == Append(list, x)

\* Runner.run_streamed(...); outputs = []
StartTurn ==
  /\ pc = "idle"
  /\ pc' = "streaming"
  /\ outputs' = <<>>
  /\ UNCHANGED <<events, src, cbLog, pending, returned, streamRaised, toolVars, poolVars,
                 startVars>>

\* The callback invoked for an entry and the text it is given:
\* reasoning_output_callback, code_output_callback or text_output_callback.
CallbackAlwaysText(en) == <<"output", en.content>>

Callback(en) == <<en.type, en.content>>

\* One event arrives and the body of the async for runs up to the callback.
ConsumeEvent(e) ==
  /\ pc = "streaming"
  /\ MainTurn \notin cancelled
  /\ Len(events) < MaxEvents
  /\ LoopFree(MainTurn)
  /\ events' = Append(events, e)
  /\ LET en == Classify(e)
     IN IF en # NoEntry
          THEN /\ cbLog' = Append(cbLog, Callback(en))
               /\ pending' = en
               /\ pc' = "append"
          ELSE UNCHANGED <<cbLog, pending, pc>>
  /\ UNCHANGED <<outputs, src, returned, streamRaised, toolVars, poolVars, startVars>>

\* outputs.append({"type": ..., "content": ...})
AppendEntry ==
  /\ pc = "append"
  /\ outputs' = AddEntry(outputs, pending)
  /\ src' = AddEntry(src, Len(events))
  /\ pending' = NoEntry
  /\ pc' = "streaming"
  /\ UNCHANGED <<events, cbLog, returned, streamRaised, toolVars, poolVars, startVars>>

\* The stream is exhausted: return outputs. The run ends only after its tool
\* calls have.
StreamEnd ==
  /\ pc = "streaming"
  /\ \A i \in Calls : turn[i] = MainTurn => co[i] # "awaiting"
  /\ pc' = "complete"
  /\ returned' = <<outputs>>
  /\ UNCHANGED <<events, outputs, src, cbLog, pending, streamRaised, toolVars, poolVars,
                 startVars>>

\* result.stream_events() raises: nothing in run_agent catches it, and the
\* exception leaves run_agent (and asyncio.run in app.py) without a return.
StreamFaultSwallowed ==
  /\ pc = "streaming"
  /\ streamRaised' = TRUE
  /\ pc' = "complete"
  /\ returned' = <<outputs>>
  /\ UNCHANGED <<events, outputs, src, cbLog, pending, toolVars, poolVars, startVars>>

StreamFault ==
  /\ pc = "streaming"
  /\ streamRaised' = TRUE
  /\ pc' = "failed"
  /\ UNCHANGED <<events, outputs, src, cbLog, pending, returned, toolVars, poolVars,
                 startVars>>

AgentNext ==
  \/ StartTurn
  \/ \E e \in EventSet : ConsumeEvent(e)
  \/ AppendEntry
  \/ StreamEnd
  \/ StreamFault

\* One turn of run_agent over every stream of at most MaxEvents events.
AgentSpec == Init /\ [][AgentNext]_vars

\* ------------------------------------------------ the pool (llm_sandbox)

Live == {c \in Containers : cstate[c] \in {"Warming", "Ready", "Leased"}}
LiveCount == Cardinality(Live)
LeasedCount == Cardinality({c \in Containers : cstate[c] = "Leased"})
NoneReady == \A c \in Containers : cstate[c] # "Ready"
\* The container the runtime creates next.
IsNextCold(c) ==
  /\ cstate[c] = "Cold"
  /\ \A d \in Containers : cstate[d] = "Cold" => c <= d

\* acquire: a Ready container becomes Leased.
AcquireReady(i, c) ==
  /\ cstate[c] = "Ready"
  /\ cstate' = [cstate EXCEPT ![c] = "Leased"]
  /\ lease' = [lease EXCEPT ![c] = i]
  /\ UNCHANGED prewarmLeft

\* acquire: none Ready and liveCount < maxSize: a new container is created.
AcquireCreate(i, c) ==
  /\ NoneReady
  /\ LiveCount < MaxPoolSize
  /\ IsNextCold(c)
  /\ cstate' = [cstate EXCEPT ![c] = "Warming"]
  /\ lease' = [lease EXCEPT ![c] = i]
  /\ UNCHANGED prewarmLeft

\* The container created for call i is provisioned and leased to it.
Provisioned(i, c) ==
  /\ cstate[c] = "Warming"
  /\ lease[c] = i
  /\ cstate' = [cstate EXCEPT ![c] = "Leased"]
  /\ UNCHANGED <<lease, prewarmLeft>>

\* Provisioning fails after its retries: ProvisioningError.
ProvisioningFailed(i, c) ==
  /\ cstate[c] = "Warming"
  /\ lease[c] = i
  /\ cstate' = [cstate EXCEPT ![c] = "Dead"]
  /\ lease' = [lease EXCEPT ![c] = 0]
  /\ UNCHANGED prewarmLeft

\* acquire can create nothing: the runtime has no container left to give.
CannotCreate ==
  /\ NoneReady
  /\ LiveCount < MaxPoolSize
  /\ \A c \in Containers : cstate[c] # "Cold"

\* acquire blocks (liveCount = maxSize, none free) until its timeout:
\* PoolExhausted.
PoolBlocked == NoneReady /\ LiveCount >= MaxPoolSize

\* release(container, healthy)
Release(c, healthy) ==
  /\ cstate' = [cstate EXCEPT ![c] = IF healthy THEN "Ready" ELSE "Dead"]
  /\ lease' = [lease EXCEPT ![c] = 0]
  /\ UNCHANGED prewarmLeft

\* prewarm(n): the pool provisions up to min_pool_size containers at startup.
PrewarmStart ==
  /\ prewarmLeft > 0
  /\ LiveCount < MaxPoolSize
  /\ \E c \in Containers :
       /\ IsNextCold(c)
       /\ cstate' = [cstate EXCEPT ![c] = "Warming"]
  /\ prewarmLeft' = prewarmLeft - 1
  /\ UNCHANGED <<lease, agentVars, toolVars, startVars>>

PrewarmDone ==
  /\ \E c \in Containers :
       /\ cstate[c] = "Warming"
       /\ lease[c] = 0
       /\ cstate' = [cstate EXCEPT ![c] = "Ready"]
  /\ UNCHANGED <<lease, prewarmLeft, agentVars, toolVars, startVars>>

\* A failure while prewarming is logged.
PrewarmFail ==
  /\ \E c \in Containers :
       /\ cstate[c] = "Warming"
       /\ lease[c] = 0
       /\ cstate' = [cstate EXCEPT ![c] = "Dead"]
  /\ UNCHANGED <<lease, prewarmLeft, agentVars, toolVars, startVars>>

\* ------------------------------------------------------------ the tools

\* str(e): a string, never None.
ErrorText(k) == k

\* The dict _run / _install returns when the session body returns.
ResultOkAlwaysSuccess(f, x) ==
  IF f = ExecTool
    THEN [success |-> TRUE, stdout |-> "stdout", stderr |-> "stderr",
          exit_code |-> x, error |-> Null]
  ELSE IF f = ExecOld
    THEN [success |-> TRUE, error |-> Null, stdout |-> "stdout", stderr |-> "stderr"]
  ELSE [success |-> TRUE, error |-> Null, stderr |-> IF x # 0 THEN "stderr" ELSE Null]

ResultOk(f, x) ==
  IF f = ExecTool
    THEN [success |-> x = 0, stdout |-> "stdout", stderr |-> "stderr",
          exit_code |-> x, error |-> Null]
  ELSE IF f = ExecOld
    THEN [success |-> x = 0, error |-> Null, stdout |-> "stdout", stderr |-> "stderr"]
  ELSE [success |-> x = 0, error |-> Null, stderr |-> IF x # 0 THEN "stderr" ELSE Null]

\* The dict the except branch returns.
ResultFault(f, k) ==
  IF f = ExecTool
    THEN [success |-> FALSE, error |-> ErrorText(k), exit_code |-> -1,
          stdout |-> Null, stderr |-> Null]
  ELSE IF f = ExecOld
    THEN [success |-> FALSE, error |-> ErrorText(k), stdout |-> Null, stderr |-> Null]
  ELSE [success |-> FALSE, error |-> ErrorText(k), stderr |-> Null]

\* except Exception as e: every fault of the library is an Exception.
CatchesRunFaultsOnly(k) == k \in RunFaults

Catches(k) == k \in FaultKinds

\* What the work item hands to its future: the returned dict, or the
\* exception that left _run.
WorkResult(f, k, x) ==
  IF k = "none" THEN ResultOk(f, x)
  ELSE IF Catches(k) THEN ResultFault(f, k)
  ELSE [raised |-> k]

\* The work item of call i ends: its future completes and the completion is
\* queued on the loop of the call's turn.
Finish(i, k, x) ==
  /\ res' = [res EXCEPT ![i] = WorkResult(tool[i], k, x)]
  /\ fault' = [fault EXCEPT ![i] = k]
  /\ wk' = [wk EXCEPT ![i] = "done"]
  /\ doneQ' = [doneQ EXCEPT ![turn[i]] = Append(@, i)]
  /\ finishOrder' = Append(finishOrder, i)

\* The tool coroutine is called and dispatches its blocking work:
\* await loop.run_in_executor(None, _run, code)
Invoke(i, t, f) ==
  /\ co[i] = "idle"
  /\ \A j \in Calls : j < i => co[j] # "idle"
  /\ t \notin cancelled
  /\ t = MainTurn => pc = "streaming"
  /\ LoopFree(t)
  /\ co' = [co EXCEPT ![i] = "awaiting"]
  /\ wk' = [wk EXCEPT ![i] = "queued"]
  /\ tool' = [tool EXCEPT ![i] = f]
  /\ turn' = [turn EXCEPT ![i] = t]
  /\ leasedBefore' = [leasedBefore EXCEPT ![i] = LeasedCount]
  /\ UNCHANGED <<res, fault, ranExit, sess, doneQ, finishOrder, deliverOrder, cancelled,
                 agentVars, poolVars, startVars>>

\* An executor thread takes the work item and enters _run.
WorkerStart(i) ==
  /\ wk[i] = "queued"
  /\ wk' = [wk EXCEPT ![i] = "enter"]
  /\ UNCHANGED <<co, tool, turn, res, fault, ranExit, sess, leasedBefore, doneQ,
                 finishOrder, deliverOrder, cancelled, agentVars, poolVars, startVars>>

\* with SandboxSession(pool=ctx.context.pool) as session: a Ready container is
\* leased and session.run / session.execute_command is issued on it.
EnterShared(i) ==
  /\ wk[i] = "enter"
  /\ \E c \in Containers :
       /\ cstate[c] \in {"Ready", "Leased"}
       /\ cstate' = [cstate EXCEPT ![c] = "Leased"]
       /\ lease' = [lease EXCEPT ![c] = i]
       /\ sess' = [sess EXCEPT ![i] = c]
  /\ wk' = [wk EXCEPT ![i] = "running"]
  /\ UNCHANGED <<co, tool, turn, res, fault, ranExit, leasedBefore, doneQ,
                 finishOrder, deliverOrder, cancelled, agentVars, prewarmLeft, startVars>>

EnterReady(i) ==
  /\ wk[i] = "enter"
  /\ \E c \in Containers :
       /\ AcquireReady(i, c)
       /\ sess' = [sess EXCEPT ![i] = c]
  /\ wk' = [wk EXCEPT ![i] = "running"]
  /\ UNCHANGED <<co, tool, turn, res, fault, ranExit, leasedBefore, doneQ,
                 finishOrder, deliverOrder, cancelled, agentVars, startVars>>

\* Entering the session makes the pool create a container.
EnterCreate(i) ==
  /\ wk[i] = "enter"
  /\ \E c \in Containers : AcquireCreate(i, c)
  /\ wk' = [wk EXCEPT ![i] = "provisioning"]
  /\ UNCHANGED <<co, tool, turn, res, fault, ranExit, sess, leasedBefore, doneQ,
                 finishOrder, deliverOrder, cancelled, agentVars, startVars>>

ProvisionOk(i) ==
  /\ wk[i] = "provisioning"
  /\ \E c \in Containers :
       /\ Provisioned(i, c)
       /\ sess' = [sess EXCEPT ![i] = c]
  /\ wk' = [wk EXCEPT ![i] = "running"]
  /\ UNCHANGED <<co, tool, turn, res, fault, ranExit, leasedBefore, doneQ,
                 finishOrder, deliverOrder, cancelled, agentVars, startVars>>

\* Entering the session raises: the except branch builds the result.
ProvisionFail(i) ==
  /\ wk[i] = "provisioning"
  /\ \E c \in Containers : ProvisioningFailed(i, c)
  /\ Finish(i, "ProvisioningError", 0)
  /\ UNCHANGED <<co, tool, turn, ranExit, sess, leasedBefore, deliverOrder, cancelled,
                 agentVars, startVars>>

EnterRefused(i) ==
  /\ wk[i] = "enter"
  /\ CannotCreate
  /\ Finish(i, "ProvisioningError", 0)
  /\ UNCHANGED <<co, tool, turn, ranExit, sess, leasedBefore, deliverOrder, cancelled,
                 agentVars, poolVars, startVars>>

EnterExhausted(i) ==
  /\ wk[i] = "enter"
  /\ PoolBlocked
  /\ Finish(i, "PoolExhausted", 0)
  /\ UNCHANGED <<co, tool, turn, ranExit, sess, leasedBefore, deliverOrder, cancelled,
                 agentVars, poolVars, startVars>>

\* Leaving the with block, normally (k = "none") or by a fault k raised in
\* its body: the session's __exit__ releases the container, unhealthy after a
\* timeout.
SessionExitUnlessFault(i, k) ==
  /\ IF k = "none"
       THEN Release(sess[i], TRUE)
       ELSE UNCHANGED poolVars
  /\ sess' = [sess EXCEPT ![i] = 0]

SessionExit(i, k) ==
  /\ Release(sess[i], k # "ExecutionTimeout")
  /\ sess' = [sess EXCEPT ![i] = 0]

\* session.run / session.execute_command returns with exit code x.
RunReturn(i, x) ==
  /\ wk[i] = "running"
  /\ ranExit' = [ranExit EXCEPT ![i] = {x}]
  /\ SessionExit(i, "none")
  /\ Finish(i, "none", x)
  /\ UNCHANGED <<co, tool, turn, leasedBefore, deliverOrder, cancelled, agentVars, startVars>>

\* session.run / session.execute_command raises.
RunFault(i, k) ==
  /\ wk[i] = "running"
  /\ SessionExit(i, k)
  /\ Finish(i, k, 0)
  /\ UNCHANGED <<co, tool, turn, ranExit, leasedBefore, deliverOrder, cancelled, agentVars,
                 startVars>>

\* The loop runs its ready callbacks in the order they were queued.
LastQueued(q) == q[Len(q)]

FirstQueued(q) == Head(q)

\* The loop of the call's turn takes a queued completion: the awaiting
\* coroutine resumes with the result (or the exception); the completion of a
\* cancelled await is dropped.
Deliver(i) ==
  /\ doneQ[turn[i]] # <<>>
  /\ i = FirstQueued(doneQ[turn[i]])
  /\ LoopFree(turn[i])
  /\ doneQ' = [doneQ EXCEPT ![turn[i]] = SelectSeq(@, LAMBDA j : j # i)]
  /\ IF co[i] = "awaiting"
       THEN /\ co' = [co EXCEPT ![i] =
                        IF "raised" \in DOMAIN res[i] THEN "raised" ELSE "returned"]
            /\ deliverOrder' = Append(deliverOrder, i)
       ELSE UNCHANGED <<co, deliverOrder>>
  /\ UNCHANGED <<wk, tool, turn, res, fault, ranExit, sess, leasedBefore, finishOrder,
                 cancelled, agentVars, poolVars, startVars>>

\* The turn's task is cancelled: CancelledError is raised in its awaiting
\* coroutines. A work item that has not started is cancelled with its future;
\* one that a thread is running goes on running.
CancelTurn(t) ==
  /\ t \notin cancelled
  /\ LoopFree(t)
  /\ t = MainTurn => pc = "streaming"
  /\ \E i \in Calls : turn[i] = t /\ co[i] = "awaiting"
  /\ cancelled' = cancelled \cup {t}
  /\ co' = [i \in Calls |->
              IF turn[i] = t /\ co[i] = "awaiting" THEN "cancelled" ELSE co[i]]
  /\ wk' = [i \in Calls |->
              IF turn[i] = t /\ co[i] = "awaiting" /\ wk[i] = "queued"
                THEN "never" ELSE wk[i]]
  /\ pc' = IF t = MainTurn THEN "cancelled" ELSE pc
  /\ UNCHANGED <<events, outputs, src, cbLog, pending, returned, streamRaised, tool, turn,
                 res, fault, ranExit, sess, leasedBefore, doneQ, finishOrder, deliverOrder,
                 poolVars, startVars>>

\* The events the loop consumes while tools run.
LoopEvents == {Ev("raw_response_event", "", <<>>, FALSE, "", NoArgs)}

Next ==
  \/ StartTurn
  \/ \E e \in LoopEvents : Len(events) < MaxLoopSteps /\ ConsumeEvent(e)
  \/ PrewarmStart
  \/ PrewarmDone
  \/ PrewarmFail
  \/ \E i \in Calls, t \in Turns, f \in ToolFns : Invoke(i, t, f)
  \/ \E i \in Calls : WorkerStart(i)
  \/ \E i \in Calls : EnterReady(i)
  \/ \E i \in Calls : EnterCreate(i)
  \/ \E i \in Calls : ProvisionOk(i)
  \/ \E i \in Calls : ProvisionFail(i)
  \/ \E i \in Calls : EnterRefused(i)
  \/ \E i \in Calls : EnterExhausted(i)
  \/ \E i \in Calls, x \in ExitCodes : RunReturn(i, x)
  \/ \E i \in Calls, k \in RunFaults : RunFault(i, k)
  \/ \E i \in Calls : Deliver(i)
  \/ \E t \in Turns : CancelTurn(t)

\* The tools of concurrent turns on the shared pool, with the loop of one turn.
Spec == Init /\ [][Next]_vars

\* ------------------------------------------- init_code_execution_pool

\* How the prewarming that create_pool_manager starts (enable_prewarming=True)
\* ends: a failure is logged by the pool and does not reach the caller.
PrewarmOutcomes == {"ready", "failed"}

\* The call is made with libraries l and reads the module global:
\* if code_execution_pool is not None: return code_execution_pool
InitCheck(p, l) ==
  /\ ipc[p] = "idle"
  /\ \A r \in InitCalls : r < p => ipc[r] # "idle"
  /\ libs' = [libs EXCEPT ![p] = l]
  /\ IF code_execution_pool # 0
       THEN /\ ret' = [ret EXCEPT ![p] = code_execution_pool]
            /\ ipc' = [ipc EXCEPT ![p] = "returned"]
       ELSE /\ ipc' = [ipc EXCEPT ![p] = "create"]
            /\ UNCHANGED ret
  /\ UNCHANGED <<code_execution_pool, made, prewarm, pipLog, agentVars, toolVars, poolVars>>

\* code_execution_pool = create_pool_manager(...): a new pool (named after the
\* call that made it) is stored in the global; then the test of libraries.
InitCreate(p, w) ==
  /\ ipc[p] = "create"
  /\ made' = [made EXCEPT ![p] = p]
  /\ prewarm' = [prewarm EXCEPT ![p] = w]
  /\ code_execution_pool' = p
  /\ ipc' = [ipc EXCEPT ![p] = IF Len(libs[p]) > 0 THEN "install" ELSE "return"]
  /\ UNCHANGED <<libs, ret, pipLog, agentVars, toolVars, poolVars>>

\* with SandboxSession(pool=code_execution_pool) as session:
\*     session.execute_command(f'pip install {" ".join(libraries)}')
\* The command returns with exit code x, which is not looked at.
InitInstall(p, x) ==
  /\ ipc[p] = "install"
  /\ pipLog' = pipLog \cup {<<code_execution_pool, libs[p]>>}
  /\ ipc' = [ipc EXCEPT ![p] = "return"]
  /\ UNCHANGED <<code_execution_pool, libs, made, ret, prewarm, agentVars, toolVars,
                 poolVars>>

\* Entering the session or the command raises k: nothing catches it, and the
\* exception leaves init_code_execution_pool with the global already set.
InitInstallFault(p, k) ==
  /\ ipc[p] = "install"
  /\ pipLog' = IF k \in EnterFaults THEN pipLog
               ELSE pipLog \cup {<<code_execution_pool, libs[p]>>}
  /\ ipc' = [ipc EXCEPT ![p] = "raised"]
  /\ UNCHANGED <<code_execution_pool, libs, made, ret, prewarm, agentVars, toolVars,
                 poolVars>>

\* return code_execution_pool
InitReturn(p) ==
  /\ ipc[p] = "return"
  /\ ret' = [ret EXCEPT ![p] = code_execution_pool]
  /\ ipc' = [ipc EXCEPT ![p] = "returned"]
  /\ UNCHANGED <<code_execution_pool, libs, made, prewarm, pipLog, agentVars, toolVars,
                 poolVars>>

StartNext ==
  \/ \E p \in InitCalls, l \in LibraryLists : InitCheck(p, l)
  \/ \E p \in InitCalls, w \in PrewarmOutcomes : InitCreate(p, w)
  \/ \E p \in InitCalls, x \in ExitCodes : InitInstall(p, x)
  \/ \E p \in InitCalls, k \in FaultKinds : InitInstallFault(p, k)
  \/ \E p \in InitCalls : InitReturn(p)

\* The calls of init_code_execution_pool a process makes, one after the other
\* or from different threads.
StartSpec == Init /\ [][StartNext]_vars

\* ------------------------------------------------- properties of the tools

Returned(i) == co[i] = "returned"

\* No container is leased to, or being created for, the session of call i.
NoLeaseBy(i) == \A c \in Containers : lease[c] # i

\* C1: whatever fault is raised inside the session (pool exhaustion,
\* provisioning failure, timeout, fault of run / execute_command), no exception
\* leaves the tool: the work item ends with a dict, the coroutine returns it,
\* and the dict has success false and a non-null error or a non-zero exit code.
C1_FaultsBecomeResults ==
  \A i \in Calls :
    /\ co[i] # "raised"
    /\ wk[i] = "done" => {"success", "error"} \subseteq DOMAIN res[i]
    /\ (Returned(i) /\ fault[i] # "none") =>
         /\ res[i].success = FALSE
         /\ \/ res[i].error # Null
            \/ "exit_code" \in DOMAIN res[i] /\ res[i].exit_code # 0

\* Two calls have returned after faults: install_python_libraries after the
\* pool was exhausted, execute_python_code after a timeout.
C1_Witness ==
  \E i, j \in Calls :
    /\ Returned(i) /\ tool[i] = Install /\ fault[i] = "PoolExhausted"
    /\ Returned(j) /\ tool[j] = ExecTool /\ fault[j] = "ExecutionTimeout"

\* C2 as stated: once a tool has returned, no container is leased to its
\* session and the pool's leased count is what it was before the invocation.
C2_AsStated ==
  \A i \in Calls :
    Returned(i) => NoLeaseBy(i) /\ LeasedCount = leasedBefore[i]

\* C2, amended: once a tool has returned (normal result, non-zero exit code or
\* fault in the session body), no container is leased to its session, and the
\* leased containers are exactly those of the other calls still inside their
\* sessions; the count is the one before the invocation when no other call
\* has been issued.
C2_ReleasedOnEveryExit ==
  \A i \in Calls :
    Returned(i) =>
      /\ NoLeaseBy(i)
      /\ sess[i] = 0
      /\ LeasedCount = Cardinality({j \in Calls \ {i} : wk[j] = "running"})
      /\ (\A j \in Calls \ {i} : co[j] = "idle") => LeasedCount = leasedBefore[i]

\* One call has returned after a fault raised by its session body, another
\* after a run that ended with a non-zero exit code.
C2_Witness ==
  \E i, j \in Calls :
    /\ Returned(i) /\ fault[i] \in RunFaults
    /\ Returned(j) /\ ranExit[j] = {1}

\* C3: in the state right after a turn is cancelled, none of its calls is
\* still at work and no container is leased to one of its sessions.
C3_CancelReleasesLease ==
  [][\A t \in Turns :
       (t \notin cancelled /\ t \in cancelled') =>
         /\ \A i \in Calls : turn[i] = t => wk'[i] \notin {"enter", "provisioning", "running"}
         /\ \A c \in Containers :
              cstate'[c] = "Leased" => turn[lease'[c]] # t]_vars

\* C4: the leased containers are among the live ones, and the live ones never
\* exceed the configured max_pool_size of 1, prewarmed and created on demand
\* together.
C4_PoolBounds ==
  /\ 0 <= LeasedCount
  /\ LeasedCount <= LiveCount
  /\ LiveCount <= 1

\* A call holds the one container, created on demand after an earlier
\* container died, while another call is entering its session.
C4_Witness ==
  /\ LeasedCount = 1
  /\ \E c \in Containers : cstate[c] = "Dead"
  /\ \E i, j \in Calls : wk[i] = "running" /\ wk[j] = "enter"

\* C5: a container is bound to at most one session, leased to that session,
\* and at most one command is in flight on it.
C5_ExclusiveLease ==
  /\ \A c \in Containers :
       /\ Cardinality({i \in Calls : sess[i] = c}) <= 1
       /\ Cardinality({i \in Calls : sess[i] = c /\ wk[i] = "running"}) <= 1
  /\ \A i \in Calls :
       /\ wk[i] = "running" => sess[i] # 0
       /\ sess[i] # 0 => cstate[sess[i]] = "Leased" /\ lease[sess[i]] = i

\* An install of one turn holds the container while an execute of another
\* turn waits to enter its session.
C5_Witness ==
  \E i, j \in Calls :
    /\ wk[i] = "running" /\ tool[i] = Install
    /\ wk[j] = "enter" /\ tool[j] = ExecTool
    /\ turn[i] # turn[j]

\* C6: while a session call of the turn is outstanding the loop can consume
\* the next stream event; the calling coroutine alone is suspended, and it can
\* resume as soon as the completion of its work item heads the loop's queue.
C6_LoopNotBlocked ==
  \A i \in Calls :
    /\ Working(i) => co[i] \in {"awaiting", "cancelled"}
    /\ (Working(i) /\ co[i] = "awaiting" /\ turn[i] = MainTurn /\ pc = "streaming"
          /\ Len(events) < MaxEvents)
         => ENABLED (\E e \in EventSet : ConsumeEvent(e))
    /\ (wk[i] = "done" /\ co[i] = "awaiting" /\ doneQ[turn[i]] # <<>>
          /\ Head(doneQ[turn[i]]) = i /\ (turn[i] = MainTurn => pc # "append"))
         => ENABLED Deliver(i)

\* A call of the turn is blocked in the pool's acquire, the container being
\* held by the running session of another call of the turn, and the loop has
\* an event to consume.
C6_Witness ==
  \E i, j \in Calls :
    /\ turn[i] = MainTurn /\ co[i] = "awaiting"
    /\ wk[i] = "enter" /\ PoolBlocked
    /\ turn[j] = MainTurn /\ wk[j] = "running"
    /\ pc = "streaming" /\ Len(events) < MaxEvents

\* Position of call i in the sequence q, 0 when absent.
Pos(q, i) == IF \E k \in 1..Len(q) : q[k] = i
               THEN CHOOSE k \in 1..Len(q) : q[k] = i
               ELSE 0

ExitOf(i) == IF "exit_code" \in DOMAIN res[i] THEN {res[i].exit_code} ELSE ranExit[i]

\* C8: every result execute_python_code returns has success exactly when the
\* exit code is 0 and error is null, on the normal and on the fault path.
C8_SuccessIffCleanExit ==
  \A i \in Calls :
    (Returned(i) /\ tool[i] \in {ExecTool, ExecOld}) =>
      res[i].success = (ExitOf(i) = {0} /\ res[i].error = Null)

\* Results of both variants of execute_python_code: a clean run, and a fault.
C8_Witness ==
  \E i, j \in Calls :
    /\ Returned(i) /\ tool[i] = ExecTool /\ fault[i] = "none" /\ res[i].success
    /\ Returned(j) /\ tool[j] = ExecOld /\ fault[j] # "none"

\* -------------------------------------------- properties of the transcript

\* The transcript is outputs while the turn runs and the returned list after.
IsAppendOf(new, old) ==
  /\ Len(new) = Len(old) + 1
  /\ SubSeq(new, 1, Len(old)) = old

\* Each entry is the one its event produces, and the events that produced the
\* entries are in arrival order.
InArrivalOrder ==
  /\ Len(src) = Len(outputs)
  /\ \A k \in 1..Len(outputs) :
       /\ src[k] \in 1..Len(events)
       /\ outputs[k] = Classify(events[src[k]])
       /\ k > 1 => src[k - 1] < src[k]
  /\ pc = "complete" => returned = <<outputs>>

\* C9: within one turn the transcript only grows at its end, and its entries
\* are in the arrival order of the events that produced them, whatever their
\* kinds; run_agent returns that transcript.
C9_TranscriptInArrivalOrder ==
  /\ []InArrivalOrder
  /\ [][outputs' = outputs \/ IsAppendOf(outputs', outputs)]_vars

\* A completed turn whose transcript has an entry of each of the three kinds.
C9_Witness ==
  /\ pc = "complete"
  /\ Len(outputs) = 3
  /\ {outputs[k].type : k \in 1..3} = {"reasoning", "code", "output"}

GivenEvents ==
  << Ev("run_item_stream_event", "reasoning_item", <<TextA>>, FALSE, "", NoArgs),
     Ev("run_item_stream_event", "tool_call_item", <<>>, TRUE, "execute_python_code",
        [hasCode |-> TRUE, code |-> Print1]),
     Ev("run_item_stream_event", "message_output_item", <<TextB>>, FALSE, "", NoArgs) >>

\* The text of each part followed by a blank line, written from the last part.
RECURSIVE Paragraphs(_)
Paragraphs(parts) ==
  IF Len(parts) = 0 THEN <<>>
  ELSE Paragraphs(SubSeq(parts, 1, Len(parts) - 1)) \o parts[Len(parts)] \o <<NL, NL>>

AllPartsEmpty(e) ==
  /\ e.type = "run_item_stream_event"
  /\ e.item \in {"reasoning_item", "message_output_item"}
  /\ \A j \in 1..Len(e.parts) : e.parts[j] = Empty

\* The k-th event has had a callback invoked or an entry appended for it.
Surfaced(k) ==
  \/ \E j \in 1..Len(src) : src[j] = k
  \/ k = Len(events) /\ pc = "append"

\* C11: a reasoning event whose parts are all empty text invokes no reasoning
\* callback and adds no entry, and a message whose content parts are all empty
\* invokes no output callback and adds no entry.
C11_EmptyEventNoEntry ==
  \A k \in 1..Len(events) : AllPartsEmpty(events[k]) => ~Surfaced(k)

\* The event is a tool call naming a tool other than execute_python_code.
IsOtherToolCall(e) ==
  /\ e.type = "run_item_stream_event"
  /\ e.item = "tool_call_item"
  /\ e.name # "execute_python_code"

\* C12: a tool call event for a tool other than execute_python_code, such as
\* install_python_libraries, whatever its arguments, leaves the transcript as
\* it is and invokes none of the three callbacks.
C12_OtherToolCallsNotSurfaced ==
  /\ [](\A k \in 1..Len(events) : IsOtherToolCall(events[k]) => ~Surfaced(k))
  /\ [][(Len(events') = Len(events) + 1 /\ IsOtherToolCall(events'[Len(events')]))
          => (outputs' = outputs /\ cbLog' = cbLog /\ pending' = pending /\ pc' = pc)]_vars

\* A completed turn that consumed a call of install_python_libraries whose
\* arguments carry a code field, next to an event that did add an entry.
C12_Witness ==
  /\ pc = "complete"
  /\ Len(outputs) >= 1
  /\ \E k \in 1..Len(events) :
       /\ IsOtherToolCall(events[k])
       /\ events[k].name = "install_python_libraries"
       /\ events[k].args.hasCode

\* C13: once the stream has raised, run_agent has ended with that exception:
\* it has not completed and has returned no transcript, whatever entries it
\* had accumulated.
C13_StreamFaultPropagates ==
  streamRaised => (pc = "failed" /\ returned = <<>>)

\* The stream raised after an entry had been appended.
C13_Witness ==
  /\ streamRaised
  /\ pc = "failed"
  /\ Len(outputs) >= 1

\* The pools create_pool_manager has returned.
PoolsMade == {made[p] : p \in InitCalls} \ {0}

\* C14: over any sequence and interleaving of calls of init_code_execution_pool
\* create_pool_manager is invoked at most once, and all the calls that return
\* return the same pool.
C14_PoolCreatedOnce ==
  /\ Cardinality(PoolsMade) <= 1
  /\ \A p, r \in InitCalls :
       (ipc[p] = "returned" /\ ipc[r] = "returned") => ret[p] = ret[r]

\* C15: a call of init_code_execution_pool whose pool was created still
\* returns the pool when the prewarming or the startup install session fails:
\* it does not end with an exception.
C15_StartupFailureNotFatal ==
  \A p \in InitCalls : made[p] # 0 => ipc[p] # "raised"

\* The event is a tool call naming execute_python_code.
IsExecCall(e) ==
  /\ e.type = "run_item_stream_event"
  /\ e.item = "tool_call_item"
  /\ e.name = "execute_python_code"

\* The entries the k-th event has added.
EntriesOf(k) == {j \in 1..Len(src) : src[j] = k}

\* The loop body has finished with the k-th event.
Handled(k) == k < Len(events) \/ pc # "append"

\* The k-th event has added exactly one code entry with the given content,
\* after the code callback was invoked with it.
OneCodeEntry(k, code) ==
  /\ Cardinality(EntriesOf(k)) = 1
  /\ \A j \in EntriesOf(k) :
       /\ outputs[j] = Entry("code", code)
       /\ j <= Len(cbLog) /\ cbLog[j] = <<"code", code>>

\* C16 as stated: every function tool call naming execute_python_code has,
\* once handled, invoked the code callback with the value of the code field and
\* added exactly one code entry with it, the field being filled, empty or
\* absent.
C16_AsStated ==
  \A k \in 1..Len(events) :
    (IsExecCall(events[k]) /\ events[k].fn /\ Handled(k))
      => OneCodeEntry(k, events[k].args.code)

\* C16, amended: a function tool call naming execute_python_code whose parsed
\* arguments have a non-empty code field invokes the code callback with that
\* value and adds exactly one code entry with it; when the code field is empty
\* or absent, or the item is not a function tool call, no callback is invoked
\* and no entry is added.
C16_CodeEntryWhenCodeNonEmpty ==
  \A k \in 1..Len(events) :
    LET e == events[k]
    IN IsExecCall(e) =>
         IF e.fn /\ e.args.hasCode /\ e.args.code # Empty
           THEN /\ Handled(k) => OneCodeEntry(k, e.args.code)
                /\ ~Handled(k) =>
                     /\ pending = Entry("code", e.args.code)
                     /\ cbLog[Len(cbLog)] = <<"code", e.args.code>>
                     /\ EntriesOf(k) = {}
           ELSE ~Surfaced(k)

\* A completed turn over three calls of execute_python_code, with code
\* "print(1)", with empty code and with no code field: one code entry.
C16_Witness ==
  /\ pc = "complete"
  /\ Len(events) = 3
  /\ \A k \in 1..3 : IsExecCall(events[k]) /\ events[k].fn
  /\ {events[k].args : k \in 1..3} = ArgObjects
  /\ returned = << <<Entry("code", Print1)>> >>

\* The callback invocations that the entries of a list stand for.
Pairs(list) == [j \in 1..Len(list) |-> <<list[j].type, list[j].content>>]

\* C17: the callback invocations, as (kind, content) pairs, are the transcript
\* so far, or between a callback and its append the transcript so far followed
\* by the entry about to be appended, and that append is then the next step.
C17_CallbacksMatchEntries ==
  /\ pc # "append" => cbLog = Pairs(outputs)
  /\ pc = "append" =>
       /\ pending # NoEntry
       /\ cbLog = Pairs(Append(outputs, pending))
       /\ ENABLED AppendEntry

\* A reasoning callback has been invoked after earlier entries, and its entry
\* is about to be appended.
C17_Witness ==
  /\ pc = "append"
  /\ pending.type = "reasoning"
  /\ Len(outputs) = 2
  /\ Len(cbLog) = 3

\* C18: every call of init_code_execution_pool with a non-empty libraries
\* list that has returned a pool has had the pip install of exactly those
\* libraries issued in a session on that pool before it returned.
C18_InstallIssuedBeforeReturn ==
  \A p \in InitCalls :
    (ipc[p] = "returned" /\ Len(libs[p]) > 0) => <<ret[p], libs[p]>> \in pipLog

====
